---- MODULE Spec2Model ----
(***************************************************************************)
(* Model of the root chain listener of the bridge                          *)
(* (bridge/setu/listener/rootchain.go): one listener, its bridge storage   *)
(* (the key "rootchain-last-block"), the main chain client, the rank       *)
(* oracle and the task server.  ProcessHeader is modelled statement group  *)
(* by statement group, so that the order of the storage write, the log     *)
(* query and the task submissions is visible.                              *)
(*                                                                         *)
(* The staking keeper (staking/keep_sync.go and the validator keeper) is   *)
(* modelled further down, over its own variables and under its own         *)
(* specifications; the listener and the keeper share no state.             *)
(***************************************************************************)
EXTENDS Integers, Sequences, FiniteSets, TLC

\* Largest head number a header notification carries.
MaxHead == 3
\* Largest MainchainTxConfirmations the chain-manager parameters carry.
MaxConf == 1
\* Largest number of logs one FilterLogs call returns.
MaxLogs == 2

Heads == 0..MaxHead
Confirmations == 0..MaxConf

(***************************************************************************)
(* Bridge storage: the value under lastRootBlockKey is the decimal text of *)
(* a block number (toBlock.String()), read back with strconv.ParseUint.    *)
(* A text is a sequence of decimal digits.                                 *)
(***************************************************************************)
RECURSIVE String(_)
String(n) == IF n < 10 THEN <<n>> ELSE Append(String(n \div 10), n % 10)

RECURSIVE ParseDigits(_)
ParseDigits(s) ==
    IF Len(s) = 0 THEN 0
    ELSE 10 * ParseDigits(SubSeq(s, 1, Len(s) - 1)) + s[Len(s)]

\* strconv.ParseUint(text, 10, 64): the empty text is a syntax error
ParseUint(s) ==
    IF Len(s) = 0 THEN [err |-> TRUE, result |-> 0]
    ELSE [err |-> FALSE, result |-> ParseDigits(s)]

NoLastBlock == [present |-> FALSE, value |-> <<>>]
LastBlock(n) == [present |-> TRUE, value |-> String(n)]

\* The block number stored under lastRootBlockKey (-1: nothing stored)
Watermark(store) == IF store.present THEN ParseUint(store.value).result ELSE -1

(***************************************************************************)
(* Event catalogue.  A log's first topic is the ID of its event; the ABIs  *)
(* are tried in the order of the listener's abis list.                     *)
(***************************************************************************)
RootChainABI == {[ID |-> "NewHeaderBlock", Name |-> "NewHeaderBlock"],
                 [ID |-> "ResetHeaderBlock", Name |-> "ResetHeaderBlock"]}
StateSenderABI == {[ID |-> "StateSynced", Name |-> "StateSynced"]}
StakingInfoABI == {[ID |-> "StakeAck", Name |-> "StakeAck"]}

abis == <<RootChainABI, StateSenderABI, StakingInfoABI>>

\* First topics the watched contracts' logs carry ("Unknown": in no ABI)
Topics == {"NewHeaderBlock", "ResetHeaderBlock", "StateSynced", "StakeAck", "Unknown"}

NoEvent == [ID |-> "nil", Name |-> "nil"]

\* helper.EventByID: the event of the ABI whose ID is the topic, or nil
EventByID(abiObject, topic) ==
    IF \E e \in abiObject : e.ID = topic
    THEN CHOOSE e \in abiObject : e.ID = topic
    ELSE NoEvent

rootChainType == "eth"

VARIABLES
    storageClient,          \* value under lastRootBlockKey
    isValidator,            \* what the rank oracle answers now
    pc,                     \* position of the header-processing goroutine
    observedHead,           \* the head number as delivered
    newHeaderNumber,        \* newHeader.Number (a *big.Int, shared)
    requiredConfirmations,
    fromBlock,
    toBlock,
    logs,                   \* logs of FilterLogs the loop has still to visit
    logIdx,                 \* number of the log the outer loop is at
    abiIdx,                 \* position of the inner loop over rl.abis
    sent,                   \* SendTask calls of this cycle
    scanned,                \* history: blocks covered by a log query (ScanHistorySpec)
    storedAtStart,          \* storage when the cycle began
    cycle                   \* what happened in this cycle

NoCycle == [ctxErr |-> FALSE, hasErr |-> FALSE, getErr |-> FALSE,
            put |-> "none", query |-> "none", sendErr |-> FALSE,
            outcome |-> "none"]

\* The goroutines Start has launched and not cancelled.
VARIABLE loops

\* most calls of Start
MaxStarts == 3

NoLoops == [header |-> 0, subscription |-> 0, polling |-> 0, current |-> "stopped", starts |-> 0]

listenerVars == <<storageClient, isValidator, pc, observedHead, newHeaderNumber,
                  requiredConfirmations, fromBlock, toBlock, logs, logIdx, abiIdx,
                  sent, scanned, storedAtStart, cycle, loops>>

\* The staking keeper's store: the staking queues, one value per queue key.
VARIABLES
    queueStore,             \* queue key -> value stored under it
    queueOp,                \* the last queue call and what it returned
    fifo,                   \* rootID -> the records a FIFO queue would hold
    consumer                \* the record the queue's consumer has taken

queueVars == <<queueStore, queueOp>>
fifoVars == <<fifo, consumer>>

\* The staking keeper's store: validator records, the validator set.
VARIABLES
    validatorStore,         \* validator key or map key -> value stored under it
    validatorOp,            \* the last validator call and what it found
    currentValidatorSet,    \* the value stored under CurrentValidatorSetKey
    proposerOp,             \* the last proposer call and what it returned
    workers                 \* the calls in progress on the validator set

validatorVars == <<validatorStore, validatorOp>>
proposerVars == <<currentValidatorSet, proposerOp>>
workerVars == <<workers>>

keeperVars == <<queueVars, fifoVars, validatorVars, proposerVars, workerVars>>
outsideQueue == <<listenerVars, validatorVars, proposerVars, workerVars>>
outsideValidators == <<listenerVars, queueVars, fifoVars, proposerVars, workerVars>>
outsideProposer == <<listenerVars, queueVars, fifoVars, validatorVars>>

vars == <<listenerVars, keeperVars>>

\* Source chains (rootID bytes), and the fields of staking records
RootIDs == {1, 2}
ValidatorIDs == {1, 2}
Nonces == {1, 2}

\* the records the checks enqueue: two that differ in the transaction hash
\* only, one more nonce of the same validator, and another validator
StakingRecords ==
    {[ValidatorID |-> 1, Nonce |-> 1, TxHash |-> 1],
     [ValidatorID |-> 1, Nonce |-> 1, TxHash |-> 2],
     [ValidatorID |-> 1, Nonce |-> 2, TxHash |-> 1],
     [ValidatorID |-> 2, Nonce |-> 1, TxHash |-> 1]}
NoRecord == [ValidatorID |-> 0, Nonce |-> 0, TxHash |-> 0]

\* the key prefix of the queue, declared with the keeper's other prefixes: one
\* fixed byte
stakingSendingQueueKey == <<36>>

\* variant: one key for all source chains
getStakingQueueKeyShared(rootID) == stakingSendingQueueKey

getStakingQueueKey(rootID) == Append(stakingSendingQueueKey, rootID)

QueueKeys == {stakingSendingQueueKey} \cup {Append(stakingSendingQueueKey, r) : r \in RootIDs}

NoValue == [present |-> FALSE, bz |-> <<>>]
NoQueueOp == [op |-> "none", rootID |-> 0, arg |-> NoRecord, out |-> "none", got |-> NoRecord]
NoConsumer == [rootID |-> 0, taken |-> NoRecord, out |-> "idle"]

\* the keeper before any call
QueueAtRest ==
    /\ queueStore = [k \in QueueKeys |-> NoValue]
    /\ queueOp = NoQueueOp
    /\ fifo = [r \in RootIDs |-> <<>>]
    /\ consumer = NoConsumer

(***************************************************************************)
(* Validator records (part_000): a record per signer address under         *)
(* ValidatorsKey, and the signer address per validator ID under            *)
(* ValidatorMapKey.  Values are stored in the codec's binary form.         *)
(***************************************************************************)
ValidatorsKey == <<33>>
ValidatorMapKey == <<34>>
CurrentValidatorSetKey == <<35>>

Signers == {1, 2, 3}
PubKeys == {1, 2}
Powers == {5, 10}

\* address.Bytes(), valID.Bytes()
Bytes(n) == <<n>>
BytesToAddress(bz) == bz[1]
ZeroAddress == 0

GetValidatorKey(address) == ValidatorsKey \o address
GetValidatorMapKey(address) == ValidatorMapKey \o address

ValidatorKeys ==
    {GetValidatorKey(Bytes(a)) : a \in Signers}
        \cup {GetValidatorMapKey(Bytes(id)) : id \in ValidatorIDs}

\* the zero value of types.Validator
NoValidator == [ID |-> 0, Signer |-> 0, PubKey |-> 0, Power |-> 0]

NoValidatorOp ==
    [op |-> "none", newSigner |-> 0, newPubkey |-> 0, prevSigner |-> 0,
     found |-> NoValidator, err |-> FALSE]

ValidatorsAtRest ==
    /\ validatorStore = [k \in ValidatorKeys |-> NoValue]
    /\ validatorOp = NoValidatorOp

(***************************************************************************)
(* The current validator set: its members with their accumulators and the  *)
(* proposer, stored as one value under CurrentValidatorSetKey.             *)
(***************************************************************************)
\* most rotation steps one IncrementAccum call is asked for
MaxTimes == 2
\* most IncrementAccum calls one worker makes
MaxCalls == 2
\* longest run of proposers remembered
MaxRun == 8

Workers == {1, 2}

NewValidatorSet(powers) ==
    [Validators |-> [i \in 1..Len(powers) |-> [ID |-> i, Power |-> powers[i], Accum |-> 0]],
     Proposer |-> 0]

\* the validator sets put in the store at genesis
GenesisPowers == {<<10, 5, 5>>, <<5, 5, 10>>, <<5, 10>>, <<5, 5>>}

NoProposerOp == [op |-> "none", times |-> 0, proposer |-> 0, recent |-> <<>>]
IdleWorker == [pc |-> "idle", read |-> <<>>, done |-> 0]

ProposerAtRest ==
    /\ currentValidatorSet = NoValue
    /\ proposerOp = NoProposerOp
    /\ workers = [w \in Workers |-> IdleWorker]

KeeperAtRest == QueueAtRest /\ ValidatorsAtRest /\ ProposerAtRest

\* the listener before any header
ListenerAtRest ==
    /\ storageClient = NoLastBlock
    /\ isValidator = FALSE
    /\ pc = "idle"
    /\ observedHead = 0
    /\ newHeaderNumber = 0
    /\ requiredConfirmations = 0
    /\ fromBlock = 0
    /\ toBlock = 0
    /\ logs = <<>>
    /\ logIdx = 1
    /\ abiIdx = 1
    /\ sent = <<>>
    /\ scanned = {}
    /\ storedAtStart = storageClient
    /\ cycle = NoCycle
    /\ loops = NoLoops

RECURSIVE SeqsUpTo(_, _)
SeqsUpTo(S, n) ==
    IF n = 0 THEN {<<>>}
    ELSE LET shorter == SeqsUpTo(S, n - 1)
         IN shorter \cup {Append(s, x) : s \in {t \in shorter : Len(t) = n - 1}, x \in S}

Init ==
    /\ storageClient \in {NoLastBlock} \cup {LastBlock(n) : n \in Heads}
    /\ isValidator \in BOOLEAN
    /\ pc = "idle"
    /\ observedHead = 0
    /\ newHeaderNumber = 0
    /\ requiredConfirmations = 0
    /\ fromBlock = 0
    /\ toBlock = 0
    /\ logs = <<>>
    /\ logIdx = 1
    /\ abiIdx = 1
    /\ sent = <<>>
    /\ scanned = {}
    /\ storedAtStart = storageClient
    /\ cycle = NoCycle
    /\ loops = NoLoops
    /\ KeeperAtRest

(***************************************************************************)
(* ProcessHeader, lines 98-116: fetch the chain-manager parameters, check  *)
(* the confirmation depth and subtract it.  latestNumber is the pointer    *)
(* newHeader.Number, and big.Int.Sub stores its result in the receiver:    *)
(* after line 116 newHeader.Number itself holds head - confirmations.      *)
(***************************************************************************)
\* variant: a head equal to the confirmation depth passes the check
NotEnoughConfirmationsStrict(latestNumber, confirmationBlocks) ==
    latestNumber < confirmationBlocks

NotEnoughConfirmations(latestNumber, confirmationBlocks) ==
    latestNumber <= confirmationBlocks

Sub(x, y) == x - y

\* variant: the default fromBlock is the first block of the chain
DefaultFromBlockGenesis(latestNumber) == 0

\* line 119: the default fromBlock is the confirmed head
DefaultFromBlock(latestNumber) == latestNumber

ProcessHeader(h) ==
    /\ UNCHANGED <<keeperVars, loops>>
    /\ pc = "idle"
    /\ observedHead' = h
    /\ storedAtStart' = storageClient
    /\ \E ctxErr \in BOOLEAN, conf \in Confirmations :
          IF ctxErr
          THEN /\ cycle' = [NoCycle EXCEPT !.ctxErr = TRUE, !.outcome = "ctxErr"]
               /\ pc' = "return"
               /\ newHeaderNumber' = h
               /\ UNCHANGED <<requiredConfirmations, fromBlock>>
          ELSE /\ requiredConfirmations' = conf
               /\ IF NotEnoughConfirmations(h, conf)
                  THEN /\ cycle' = [NoCycle EXCEPT !.outcome = "lowHead"]
                       /\ pc' = "return"
                       /\ newHeaderNumber' = h
                       /\ UNCHANGED fromBlock
                  ELSE /\ cycle' = NoCycle
                       /\ pc' = "getLast"
                       /\ newHeaderNumber' = Sub(h, conf)
                       /\ fromBlock' = DefaultFromBlock(Sub(h, conf))
    /\ UNCHANGED <<storageClient, isValidator, toBlock, logs, logIdx, abiIdx,
                   sent, scanned>>

(***************************************************************************)
(* ProcessHeader, lines 118-146: read the last block from storage (the     *)
(* error of Has is dropped, the error of Get returns), compare it with     *)
(* newHeader.Number and choose fromBlock and toBlock.                      *)
(***************************************************************************)
HasLastBlock(store, hasErr) == store.present /\ ~hasErr

AlreadyProcessed(result, headerNumber) == result >= headerNumber

StartAfter(result, from) == IF result + 1 < from THEN result + 1 ELSE from

CollapseFrom(from, to) == IF to < from THEN to ELSE from

GetLastBlock ==
    /\ UNCHANGED <<keeperVars, loops>>
    /\ pc = "getLast"
    /\ \E hasErr \in BOOLEAN, getErr \in BOOLEAN :
          LET latestNumber == newHeaderNumber
              parsed == ParseUint(storageClient.value)
          IN IF HasLastBlock(storageClient, hasErr)
             THEN IF getErr
                  THEN /\ cycle' = [cycle EXCEPT !.getErr = TRUE, !.outcome = "getErr"]
                       /\ pc' = "return"
                       /\ UNCHANGED <<fromBlock, toBlock>>
                  ELSE IF ~parsed.err /\ AlreadyProcessed(parsed.result, newHeaderNumber)
                  THEN /\ cycle' = [cycle EXCEPT !.outcome = "seen"]
                       /\ pc' = "return"
                       /\ UNCHANGED <<fromBlock, toBlock>>
                  ELSE /\ cycle' = cycle
                       /\ pc' = "put"
                       /\ toBlock' = latestNumber
                       /\ fromBlock' =
                            CollapseFrom(IF parsed.err THEN fromBlock
                                         ELSE StartAfter(parsed.result, fromBlock),
                                         latestNumber)
             ELSE /\ cycle' = [cycle EXCEPT !.hasErr = hasErr]
                  /\ pc' = "put"
                  /\ toBlock' = latestNumber
                  /\ fromBlock' = CollapseFrom(fromBlock, latestNumber)
    /\ UNCHANGED <<storageClient, isValidator, observedHead, newHeaderNumber,
                   requiredConfirmations, logs, logIdx, abiIdx, sent, scanned,
                   storedAtStart>>

(***************************************************************************)
(* ProcessHeader, lines 148-151: write toBlock under lastRootBlockKey; a   *)
(* failed Put is logged and the cycle goes on.                             *)
(***************************************************************************)
\* variant: the start of the range is stored instead of its end
PutValueFromBlock(from, to) == String(from)

PutValue(from, to) == String(to)

PutLastBlock ==
    /\ UNCHANGED <<keeperVars, loops>>
    /\ pc = "put"
    /\ \E putErr \in BOOLEAN :
          IF putErr
          THEN /\ cycle' = [cycle EXCEPT !.put = "failed"]
               /\ UNCHANGED storageClient
          ELSE /\ cycle' = [cycle EXCEPT !.put = "ok"]
               /\ storageClient' = [present |-> TRUE, value |-> PutValue(fromBlock, toBlock)]
    /\ pc' = "query"
    /\ UNCHANGED <<isValidator, observedHead, newHeaderNumber, requiredConfirmations,
                   fromBlock, toBlock, logs, logIdx, abiIdx, sent, scanned,
                   storedAtStart>>

(***************************************************************************)
(* queryAndBroadcastEvents, lines 157-176: one FilterLogs call for         *)
(* [fromBlock, toBlock]; an error ends the cycle.                          *)
(***************************************************************************)
QueryRange(from, to) == from..to

FilterLogsCall ==
    /\ UNCHANGED <<keeperVars, loops>>
    /\ pc = "query"
    /\ \E err \in BOOLEAN, ls \in SeqsUpTo(Topics, MaxLogs) :
          IF err
          THEN /\ cycle' = [cycle EXCEPT !.query = "failed", !.outcome = "filterErr"]
               /\ logs' = <<>>
               /\ pc' = "return"
          ELSE /\ logs' = ls
               /\ IF ls = <<>>
                  THEN /\ cycle' = [cycle EXCEPT !.query = "ok", !.outcome = "done"]
                       /\ pc' = "return"
                  ELSE /\ cycle' = [cycle EXCEPT !.query = "ok"]
                       /\ pc' = "logs"
    /\ logIdx' = 1
    /\ abiIdx' = 1
    /\ UNCHANGED <<storageClient, isValidator, observedHead, newHeaderNumber,
                   requiredConfirmations, fromBlock, toBlock, sent, storedAtStart>>

\* the call of FilterLogs; the listener keeps no record of the blocks queried
FilterLogs == FilterLogsCall /\ UNCHANGED scanned

\* the call of FilterLogs, with the queried range added to the history
FilterLogsRecorded ==
    /\ FilterLogsCall
    /\ scanned' = scanned \cup QueryRange(fromBlock, toBlock)

(***************************************************************************)
(* queryAndBroadcastEvents, lines 178-205, and sendTaskWithDelay: one      *)
(* iteration of the inner loop, for the log at logIdx and the ABI at       *)
(* abiIdx.  The error of SendTask is logged and the loop goes on.          *)
(***************************************************************************)
TaskNameFor(eventName) ==
    CASE eventName = "NewHeaderBlock" -> "sendCheckpointAckToHeimdall"
      [] eventName = "StateSynced" -> "sendStateSyncedToHeimdall"
      [] eventName = "StakeAck" -> "sendStakingAckToHeimdall"
      [] OTHER -> "none"

\* util.CalculateTaskDelay: whether the local node is a current validator
CalculateTaskDelay(validatorNow) == validatorNow

\* variant: the answer of the rank oracle is not consulted
ShouldSendAnyNode(selectedEvent, isCurrentValidator) ==
    /\ selectedEvent # NoEvent
    /\ TaskNameFor(selectedEvent.Name) # "none"

ShouldSend(selectedEvent, isCurrentValidator) ==
    /\ selectedEvent # NoEvent
    /\ TaskNameFor(selectedEvent.Name) # "none"
    /\ isCurrentValidator

Signature(taskName, eventName, logNo, topic) ==
    [Name |-> taskName,
     Args |-> <<eventName, topic, rootChainType>>,
     RetryCount |-> 3,
     RetryTimeout |-> 3,
     log |-> logNo]

\* the inner loop position after the iteration at ABI j (1: next log)
NextPosition(j) == IF j < Len(abis) THEN j + 1 ELSE 1

\* the logs left to iterate after the iteration at ABI j of the first of them
RestOfLogs(ls, j) == IF j < Len(abis) THEN ls ELSE Tail(ls)

\* variant: a failed SendTask returns from queryAndBroadcastEvents
LoopEndsOnSendError(sendErr, rest) == sendErr \/ rest = <<>>

\* the loops end when no log is left; a failed SendTask does not end them
LoopEnds(sendErr, rest) == rest = <<>>

ProcessLogOver(abiObjects) ==
    /\ UNCHANGED <<keeperVars, loops>>
    /\ pc = "logs"
    /\ LET topic == Head(logs)
           selectedEvent == EventByID(abiObjects[abiIdx], topic)
           send == ShouldSend(selectedEvent, CalculateTaskDelay(isValidator))
       IN \E sendErr \in BOOLEAN :
             LET rest == RestOfLogs(logs, abiIdx)
                 over == LoopEnds(sendErr, rest)
             IN /\ (~send => ~sendErr)
                /\ sent' = IF send
                           THEN Append(sent, [sig |-> Signature(TaskNameFor(selectedEvent.Name),
                                                                selectedEvent.Name, logIdx, topic),
                                              err |-> sendErr])
                           ELSE sent
                /\ logs' = rest
                /\ logIdx' = IF abiIdx < Len(abis) THEN logIdx ELSE logIdx + 1
                /\ abiIdx' = NextPosition(abiIdx)
                /\ pc' = IF over THEN "return" ELSE "logs"
                /\ cycle' = [cycle EXCEPT !.sendErr = @ \/ sendErr,
                                          !.outcome = IF over THEN "done" ELSE @]
    /\ UNCHANGED <<storageClient, isValidator, observedHead, newHeaderNumber,
                   requiredConfirmations, fromBlock, toBlock, scanned,
                   storedAtStart>>

ProcessLog == ProcessLogOver(abis)

(***************************************************************************)
(* ProcessHeader returns to the header-processing loop, which waits for    *)
(* the next header; the locals of the call are gone.                       *)
(***************************************************************************)
Return ==
    /\ UNCHANGED <<keeperVars, loops>>
    /\ pc = "return"
    /\ pc' = "idle"
    /\ observedHead' = 0
    /\ newHeaderNumber' = 0
    /\ requiredConfirmations' = 0
    /\ fromBlock' = 0
    /\ toBlock' = 0
    /\ logs' = <<>>
    /\ logIdx' = 1
    /\ abiIdx' = 1
    /\ sent' = <<>>
    /\ storedAtStart' = storageClient
    /\ cycle' = NoCycle
    /\ UNCHANGED <<storageClient, isValidator, scanned>>

\* The validator set changes: the local node joins or leaves it.
ValidatorSetChange ==
    /\ UNCHANGED <<keeperVars, loops>>
    /\ isValidator' = ~isValidator
    /\ UNCHANGED <<storageClient, pc, observedHead, newHeaderNumber,
                   requiredConfirmations, fromBlock, toBlock, logs, logIdx, abiIdx,
                   sent, scanned, storedAtStart, cycle>>

Next ==
    \/ \E h \in Heads : ProcessHeader(h)
    \/ GetLastBlock
    \/ PutLastBlock
    \/ FilterLogs
    \/ ProcessLog
    \/ Return
    \/ ValidatorSetChange

Spec == Init /\ [][Next]_vars

(***************************************************************************)
(* The listener with the history of its log queries: the same steps, and   *)
(* scanned collects the range of every FilterLogs call.                    *)
(***************************************************************************)
ScanHistoryNext ==
    \/ \E h \in Heads : ProcessHeader(h)
    \/ GetLastBlock
    \/ PutLastBlock
    \/ FilterLogsRecorded
    \/ ProcessLog
    \/ Return
    \/ ValidatorSetChange

ScanHistorySpec == Init /\ [][ScanHistoryNext]_vars

(***************************************************************************)
(* The listener over ABIs that share an event: StakingInfo declares        *)
(* NewHeaderBlock as RootChain does, and an event declared by two          *)
(* contracts has the same ID in both ABIs.                                 *)
(***************************************************************************)
abisSharingEvent ==
    <<RootChainABI, StateSenderABI,
      StakingInfoABI \cup {[ID |-> "NewHeaderBlock", Name |-> "NewHeaderBlock"]}>>

SharedEventNext ==
    \/ \E h \in Heads : ProcessHeader(h)
    \/ GetLastBlock
    \/ PutLastBlock
    \/ FilterLogs
    \/ ProcessLogOver(abisSharingEvent)
    \/ Return
    \/ ValidatorSetChange

SharedEventSpec == Init /\ [][SharedEventNext]_vars

TypeOK ==
    /\ pc \in {"idle", "getLast", "put", "query", "logs", "return"}
    /\ scanned \subseteq Heads

(***************************************************************************)
(* Properties of the listener.                                             *)
(***************************************************************************)
\* head - requiredConfirmations of the cycle under way
ConfirmedHead == observedHead - requiredConfirmations

\* the cycle under way has issued its log query
Queried == cycle.query # "none"

\* the cycle under way wrote nothing, queried nothing and submitted nothing
NoEffect ==
    /\ storageClient = storedAtStart
    /\ cycle.put = "none"
    /\ cycle.query = "none"
    /\ pc \notin {"put", "query", "logs"}
    /\ sent = <<>>

\* C1: the watermark stored under lastRootBlockKey never decreases: every
\* step of ProcessHeader leaves a value >= the value stored before it.
WatermarkNeverDecreases ==
    [][Watermark(storageClient') >= Watermark(storageClient)]_vars

\* C2: no block lies in the range of two log queries: the range of the
\* query being issued is disjoint from all blocks queried before.
NoBlockQueriedTwice ==
    [][(pc = "query" /\ pc' # "query")
          => QueryRange(fromBlock, toBlock) \cap scanned = {}]_vars

\* C3: when a watermark w is stored and the confirmed head is greater than
\* w, the log query of the cycle is for exactly [w+1, confirmedHead].
QueryContinuesAfterWatermark ==
    (Queried /\ storedAtStart.present /\ ConfirmedHead > Watermark(storedAtStart))
        => (fromBlock = Watermark(storedAtStart) + 1 /\ toBlock = ConfirmedHead)

\* C4 as stated: whenever the log query of a cycle is being issued or has
\* been issued (also when it failed), the stored watermark equals toBlock.
WatermarkIsToBlockAtQuery ==
    (pc = "query" \/ Queried) => Watermark(storageClient) = toBlock

\* C4 amended: the write of toBlock is issued before the log query, and when
\* that write succeeded the stored watermark equals toBlock while the query
\* is issued and after it, also when the query failed; when the write failed
\* the storage is as the cycle found it.
WatermarkWriteBeforeQuery ==
    (pc = "query" \/ Queried)
        => /\ cycle.put # "none"
           /\ cycle.put = "ok" => Watermark(storageClient) = toBlock
           /\ cycle.put = "failed" => storageClient = storedAtStart

\* a log query over more than one block failed after the watermark was written
FailedQueryAfterWrite ==
    /\ cycle.query = "failed"
    /\ cycle.put = "ok"
    /\ fromBlock < toBlock
    /\ Watermark(storageClient) = toBlock

\* C5: a cycle whose head is <= the required confirmations is skipped: it
\* ends without a storage write, a log query or a task.
LowHeadSkipsCycle ==
    (pc # "idle" /\ ~cycle.ctxErr /\ observedHead <= requiredConfirmations)
        => (pc = "return" /\ NoEffect)

\* a cycle was skipped for a head equal to the required confirmations
LowHeadSkipped ==
    /\ pc = "return"
    /\ cycle.outcome = "lowHead"
    /\ observedHead = requiredConfirmations
    /\ observedHead > 0

\* C6: a cycle that starts with a stored watermark >= the observed head is
\* skipped: the watermark stays, no log query and no task.
StoredAheadOfHeadSkipsCycle ==
    (pc # "idle" /\ storedAtStart.present /\ Watermark(storedAtStart) >= observedHead)
        => NoEffect

\* C7 as stated: a cycle that starts with no watermark stored and a head
\* above the required confirmations queries [confirmedHead, confirmedHead]
\* and leaves confirmedHead stored.
FirstScanStoresConfirmedHead ==
    (pc = "return" /\ ~cycle.ctxErr /\ ~storedAtStart.present
       /\ observedHead > requiredConfirmations)
        => /\ Queried
           /\ fromBlock = ConfirmedHead
           /\ toBlock = ConfirmedHead
           /\ Watermark(storageClient) = ConfirmedHead

\* C7 amended: such a cycle queries exactly [confirmedHead, confirmedHead];
\* afterwards confirmedHead is stored when the write succeeded, and nothing
\* is stored when it failed.
FirstScanIsConfirmedHeadOnly ==
    (pc = "return" /\ ~cycle.ctxErr /\ ~storedAtStart.present
       /\ observedHead > requiredConfirmations)
        => /\ Queried
           /\ fromBlock = ConfirmedHead
           /\ toBlock = ConfirmedHead
           /\ cycle.put = "ok" => Watermark(storageClient) = ConfirmedHead
           /\ cycle.put = "failed" => ~storageClient.present

\* a first scan of a confirmed head above block 1 ended with it stored
FirstScanDone ==
    /\ pc = "return"
    /\ ~storedAtStart.present
    /\ cycle.query = "ok"
    /\ cycle.put = "ok"
    /\ requiredConfirmations > 0
    /\ ConfirmedHead > 1
    /\ Watermark(storageClient) = ConfirmedHead

\* the task names of the events that are broadcast
DispatchTable ==
    [NewHeaderBlock |-> "sendCheckpointAckToHeimdall",
     StateSynced |-> "sendStateSyncedToHeimdall",
     StakeAck |-> "sendStakingAckToHeimdall"]

\* C8: the iteration for a log and an ABI submits a task if and only if the
\* ABI knows the log's first topic as NewHeaderBlock, StateSynced or StakeAck
\* and the local node is a current validator; the task then has the name
\* the table gives.  Otherwise nothing is submitted, nothing fails and the
\* loop goes on to its normal end.
TaskIffBroadcastEventAndValidator ==
    [][(pc = "logs" /\ abiIdx' # abiIdx)
          => LET names == {e.Name : e \in {x \in abis[abiIdx] : x.ID = Head(logs)}}
                             \cap DOMAIN DispatchTable
             IN /\ IF names # {} /\ isValidator
                   THEN /\ Len(sent') = Len(sent) + 1
                        /\ SubSeq(sent', 1, Len(sent)) = sent
                        /\ \E n \in names :
                              /\ sent'[Len(sent')].sig.Name = DispatchTable[n]
                              /\ sent'[Len(sent')].sig.Args[1] = n
                              /\ sent'[Len(sent')].sig.log = logIdx
                   ELSE sent' = sent
                /\ pc' \in {"logs", "return"}
                /\ pc' = "return" => (cycle'.outcome = "done" /\ logs' = <<>>)]_vars

\* a scan of two logs ended normally with no task for the first log and a
\* state-sync task for the second
OneTaskForTwoLogs ==
    /\ pc = "return"
    /\ cycle.outcome = "done"
    /\ logIdx = 3
    /\ Len(sent) = 1
    /\ sent[1].sig.Name = "sendStateSyncedToHeimdall"
    /\ sent[1].sig.log = 2

\* some call of the cycle under way failed
CycleFailure ==
    \/ cycle.ctxErr
    \/ cycle.hasErr
    \/ cycle.getErr
    \/ cycle.put = "failed"
    \/ cycle.query = "failed"
    \/ cycle.sendErr

\* C9: a cycle in which the parameter fetch or the read of the stored
\* watermark (Has, Get) failed is aborted: storage unchanged, no log query,
\* no task.
FailedReadAbortsCycle ==
    (pc # "idle" /\ (cycle.ctxErr \/ cycle.hasErr \/ cycle.getErr)) => NoEffect

\* one step of the cycle under way
CycleStep == GetLastBlock \/ PutLastBlock \/ FilterLogs \/ ProcessLog \/ Return

\* an upper bound of the number of steps the cycle under way still takes
StepsLeft ==
    CASE pc = "getLast" -> 4 + MaxLogs * Len(abis)
      [] pc = "put" -> 3 + MaxLogs * Len(abis)
      [] pc = "query" -> 2 + MaxLogs * Len(abis)
      [] pc = "logs" -> 2 + Len(logs) * Len(abis) - abiIdx
      [] pc = "return" -> 1
      [] OTHER -> 0

\* C10: no failure stops the listener.  A failed task submission does not
\* end the scan: every log FilterLogs returned is visited.  Whatever call
\* failed, the cycle under way can always take its next step, every step
\* brings it closer to its end, and at its end the header loop takes any
\* next head.
ListenerSurvivesFailures ==
    /\ [](pc = "return" /\ cycle.query = "ok" => logs = <<>> /\ cycle.outcome = "done")
    /\ [](pc # "idle" => ENABLED CycleStep)
    /\ [](pc = "idle" => \A h \in Heads : ENABLED ProcessHeader(h))
    /\ [][(pc # "idle" /\ (pc' # pc \/ logs' # logs \/ abiIdx' # abiIdx))
             => StepsLeft' < StepsLeft]_vars

\* a failed submission for the first log was followed by a task for the
\* second log, and the scan ended normally
SubmissionFailureSwallowed ==
    /\ pc = "return"
    /\ cycle.outcome = "done"
    /\ Len(sent) = 2
    /\ sent[1].err
    /\ sent[1].sig.log = 1
    /\ sent[2].sig.log = 2

(***************************************************************************)
(* Start, lines 60-95: new cancel functions replace the ones held, the     *)
(* watermark is seeded from the configured start block (the error of the   *)
(* write is dropped), the header-processing loop is launched, and then the *)
(* subscription loop if SubscribeNewHead succeeds and the polling loop if  *)
(* it fails.  A loop runs until its context is cancelled.                  *)
(***************************************************************************)
\* lines 72-75: the stored watermark after the seeding
Seeded(store, startListenBlock, written) ==
    IF startListenBlock # 0 /\ written THEN LastBlock(startListenBlock) ELSE store

\* lines 81-89: the head-delivery loop launched
DeliveryMode(subscribeErr) == IF subscribeErr THEN "polling" ELSE "subscription"

Start ==
    /\ loops.starts < MaxStarts
    /\ \E startListenBlock \in Heads, written \in BOOLEAN, subscribeErr \in BOOLEAN :
          /\ storageClient' = Seeded(storageClient, startListenBlock, written)
          /\ loops' = [header |-> loops.header + 1,
                       subscription |-> loops.subscription
                                           + (IF DeliveryMode(subscribeErr) = "subscription"
                                              THEN 1 ELSE 0),
                       polling |-> loops.polling
                                      + (IF DeliveryMode(subscribeErr) = "polling" THEN 1 ELSE 0),
                       current |-> DeliveryMode(subscribeErr),
                       starts |-> loops.starts + 1]
    /\ storedAtStart' = storageClient'
    /\ UNCHANGED <<isValidator, pc, observedHead, newHeaderNumber, requiredConfirmations,
                   fromBlock, toBlock, logs, logIdx, abiIdx, sent, scanned, cycle,
                   keeperVars>>

\* Stop: the cancel functions the listener holds are called; the loops of
\* the last Start end
Stop ==
    /\ loops.current # "stopped"
    /\ loops' = [loops EXCEPT !.header = @ - 1,
                              !.subscription = IF loops.current = "subscription" THEN @ - 1 ELSE @,
                              !.polling = IF loops.current = "polling" THEN @ - 1 ELSE @,
                              !.current = "stopped"]
    /\ UNCHANGED <<storageClient, isValidator, pc, observedHead, newHeaderNumber,
                   requiredConfirmations, fromBlock, toBlock, logs, logIdx, abiIdx,
                   sent, scanned, storedAtStart, cycle, keeperVars>>

StartNext == Start \/ Stop

StartSpec == Init /\ [][StartNext]_vars

\* C22: while the listener is started, exactly one head-delivery loop runs,
\* the subscription loop if SubscribeNewHead succeeded and the polling loop
\* if it failed, beside a single header-processing loop.
ExactlyOneDeliveryMode ==
    loops.current # "stopped"
    => /\ loops.header = 1
       /\ loops.subscription = (IF loops.current = "subscription" THEN 1 ELSE 0)
       /\ loops.polling = (IF loops.current = "polling" THEN 1 ELSE 0)

(***************************************************************************)
(* Staking sync queue (staking/keep_sync.go).  The list of records of a    *)
(* source chain is stored as one value under the chain's queue key, in     *)
(* the codec's binary form: the fields of the records one after another.   *)
(***************************************************************************)
\* Largest number of staking records the queues hold together.
MaxQueue == 3

RECURSIVE MarshalBinaryBare(_)
MarshalBinaryBare(records) ==
    IF records = <<>> THEN <<>>
    ELSE <<Head(records).ValidatorID, Head(records).Nonce, Head(records).TxHash>>
            \o MarshalBinaryBare(Tail(records))

RECURSIVE DecodeRecords(_)
DecodeRecords(bz) ==
    IF Len(bz) < 3 THEN <<>>
    ELSE <<[ValidatorID |-> bz[1], Nonce |-> bz[2], TxHash |-> bz[3]]>>
            \o DecodeRecords(SubSeq(bz, 4, Len(bz)))

\* UnmarshalBinaryBare into a list of records.  What the codec does with an
\* empty value is its own matter: it gives the empty list, or an error
\* (rejectEmpty).
UnmarshalBinaryBare(bz, rejectEmpty) ==
    IF Len(bz) = 0 THEN [err |-> rejectEmpty, records |-> <<>>]
    ELSE IF Len(bz) % 3 # 0 THEN [err |-> TRUE, records |-> <<>>]
    ELSE [err |-> FALSE, records |-> DecodeRecords(bz)]

\* the records stored for a key (none when the key is absent)
StoredRecords(store, key) ==
    IF store[key].present THEN DecodeRecords(store[key].bz) ELSE <<>>

RECURSIVE SumOver(_, _)
SumOver(f, S) ==
    IF S = {} THEN 0
    ELSE LET x == CHOOSE y \in S : TRUE IN f[x] + SumOver(f, S \ {x})

TotalStored == SumOver([k \in QueueKeys |-> Len(StoredRecords(queueStore, k))], QueueKeys)

Set(store, key, value) == [store EXCEPT ![key] = [present |-> TRUE, bz |-> value]]

\* AddStakingRecordToQueue, lines 24-43
RecordsAfterAdd(records, stakingRecord) == Append(records, stakingRecord)

AddStakingRecordToQueue(rootID, stakingRecord) ==
    /\ TotalStored < MaxQueue
    /\ LET key == getStakingQueueKey(rootID)
       IN \E rejectEmpty \in BOOLEAN :
             LET u == IF queueStore[key].present
                      THEN UnmarshalBinaryBare(queueStore[key].bz, rejectEmpty)
                      ELSE [err |-> FALSE, records |-> <<>>]
             IN IF u.err
                THEN /\ UNCHANGED queueStore
                     /\ queueOp' = [op |-> "add", rootID |-> rootID, arg |-> stakingRecord,
                                    out |-> "error", got |-> NoRecord]
                ELSE /\ queueStore' = Set(queueStore, key,
                                          MarshalBinaryBare(RecordsAfterAdd(u.records, stakingRecord)))
                     /\ queueOp' = [op |-> "add", rootID |-> rootID, arg |-> stakingRecord,
                                    out |-> "ok", got |-> NoRecord]
    /\ UNCHANGED outsideQueue

\* GetNextStakingRecordFromQueue, lines 46-60: &records[0] of an empty list
\* is an index out of range
FirstRecord(records) ==
    IF records = <<>> THEN [out |-> "panic", got |-> NoRecord]
    ELSE [out |-> "record", got |-> records[1]]

GetNextStakingRecordFromQueue(rootID) ==
    /\ LET key == getStakingQueueKey(rootID)
       IN \E rejectEmpty \in BOOLEAN :
             LET u == UnmarshalBinaryBare(queueStore[key].bz, rejectEmpty)
                 r == IF ~queueStore[key].present THEN [out |-> "none", got |-> NoRecord]
                      ELSE IF u.err THEN [out |-> "error", got |-> NoRecord]
                      ELSE FirstRecord(u.records)
             IN queueOp' = [op |-> "next", rootID |-> rootID, arg |-> NoRecord,
                            out |-> r.out, got |-> r.got]
    /\ UNCHANGED queueStore
    /\ UNCHANGED outsideQueue

\* findStakingRecordFromQueue, lines 63-84
SameRecord(record, stakingRecord) ==
    /\ record.ValidatorID = stakingRecord.ValidatorID
    /\ record.Nonce = stakingRecord.Nonce
    /\ record.TxHash = stakingRecord.TxHash

findStakingRecordFromQueue(rootID, stakingRecord) ==
    /\ LET key == getStakingQueueKey(rootID)
       IN \E rejectEmpty \in BOOLEAN :
             LET u == UnmarshalBinaryBare(queueStore[key].bz, rejectEmpty)
                 found == /\ queueStore[key].present
                          /\ ~u.err
                          /\ \E i \in 1..Len(u.records) : SameRecord(u.records[i], stakingRecord)
             IN queueOp' = [op |-> "find", rootID |-> rootID, arg |-> stakingRecord,
                            out |-> IF found THEN "true" ELSE "false", got |-> NoRecord]
    /\ UNCHANGED queueStore
    /\ UNCHANGED outsideQueue

\* removeStakingRecordFromQueue, lines 87-113
Matches(record, validatorID, nonce) ==
    record.ValidatorID = validatorID /\ record.Nonce = nonce

\* line 103: results := records[index+1:]
RecordsAfterRemove(records, index) == SubSeq(records, index + 1, Len(records))

removeStakingRecordFromQueue(rootID, validatorID, nonce) ==
    /\ LET key == getStakingQueueKey(rootID)
           arg == [ValidatorID |-> validatorID, Nonce |-> nonce, TxHash |-> 0]
       IN \E rejectEmpty \in BOOLEAN :
             LET u == UnmarshalBinaryBare(queueStore[key].bz, rejectEmpty)
                 hits == {i \in 1..Len(u.records) : Matches(u.records[i], validatorID, nonce)}
             IN IF ~queueStore[key].present \/ u.err \/ hits = {}
                THEN /\ UNCHANGED queueStore
                     /\ queueOp' = [op |-> "remove", rootID |-> rootID, arg |-> arg,
                                    out |-> "nothing", got |-> NoRecord]
                ELSE LET index == CHOOSE i \in hits : \A j \in hits : i <= j
                     IN /\ queueStore' = Set(queueStore, key,
                                             MarshalBinaryBare(RecordsAfterRemove(u.records, index)))
                        /\ queueOp' = [op |-> "remove", rootID |-> rootID, arg |-> arg,
                                       out |-> "removed", got |-> u.records[index]]
    /\ UNCHANGED outsideQueue

QueueInit == ListenerAtRest /\ KeeperAtRest

QueueNext ==
    \/ \E r \in RootIDs, rec \in StakingRecords :
          AddStakingRecordToQueue(r, rec) /\ UNCHANGED fifoVars
    \/ \E r \in RootIDs : GetNextStakingRecordFromQueue(r) /\ UNCHANGED fifoVars
    \/ \E r \in RootIDs, rec \in StakingRecords :
          findStakingRecordFromQueue(r, rec) /\ UNCHANGED fifoVars
    \/ \E r \in RootIDs, v \in ValidatorIDs, n \in Nonces :
          removeStakingRecordFromQueue(r, v, n) /\ UNCHANGED fifoVars

QueueSpec == QueueInit /\ [][QueueNext]_vars

(***************************************************************************)
(* Properties of the staking sync queue.                                   *)
(***************************************************************************)
QueueOf(rootID) == StoredRecords(queueStore, getStakingQueueKey(rootID))

\* the list with the record at index taken out and the others left in place
RecordsWithout(records, index) ==
    SubSeq(records, 1, index - 1) \o SubSeq(records, index + 1, Len(records))

FirstMatch(records, validatorID, nonce) ==
    CHOOSE i \in 1..Len(records) :
        /\ Matches(records[i], validatorID, nonce)
        /\ \A j \in 1..(i - 1) : ~Matches(records[j], validatorID, nonce)

\* C11: the stored list of a rootID never holds two records with the same
\* (validatorID, nonce, txHash) triple.
EnqueueIsIdempotent ==
    \A r \in RootIDs :
        \A i, j \in 1..Len(QueueOf(r)) :
            i # j => ~SameRecord(QueueOf(r)[i], QueueOf(r)[j])

\* C12: a remove whose (validatorID, nonce) matches a stored record leaves
\* the list without that one record and with every other record, earlier
\* and later, in its place.
RemoveDropsExactlyOne ==
    [][\A r \in RootIDs, v \in ValidatorIDs, n \in Nonces :
          (/\ removeStakingRecordFromQueue(r, v, n)
           /\ \E i \in 1..Len(QueueOf(r)) : Matches(QueueOf(r)[i], v, n))
          => StoredRecords(queueStore', getStakingQueueKey(r))
                = RecordsWithout(QueueOf(r), FirstMatch(QueueOf(r), v, n))]_vars

\* C13: a peek returns the first stored record of the rootID, or none when
\* the queue holds no record (never written, or emptied by removes), and
\* leaves the store as it was.
PeekReturnsHeadOrNone ==
    [][\A r \in RootIDs :
          GetNextStakingRecordFromQueue(r)
          => /\ queueStore' = queueStore
             /\ IF QueueOf(r) = <<>>
                THEN queueOp'.out = "none"
                ELSE queueOp'.out = "record" /\ queueOp'.got = QueueOf(r)[1]]_vars

\* C20: an enqueue, peek or remove on rootID a (the call queueOp records)
\* leaves the stored list of every other rootID b unchanged.
QueuesAreIndependent ==
    [][\A b \in RootIDs :
          b # queueOp'.rootID
          => StoredRecords(queueStore', getStakingQueueKey(b)) = QueueOf(b)]_vars

\* both chains hold records, not the same ones, and a record has just been
\* removed from one of them
RemovedBesideOtherChain ==
    /\ QueueOf(1) # <<>>
    /\ QueueOf(2) # <<>>
    /\ QueueOf(1) # QueueOf(2)
    /\ queueOp.op = "remove"
    /\ queueOp.out = "removed"

(***************************************************************************)
(* The consumer of the queue: it peeks, takes the record the peek returned *)
(* and removes it by its (validatorID, nonce), while records are enqueued. *)
(* fifo is the list a strict FIFO would hold: the records enqueued and not *)
(* yet taken, oldest first.                                                *)
(***************************************************************************)
Enqueued == SumOver([r \in RootIDs |-> Len(fifo[r])], RootIDs)

Enqueue(rootID, stakingRecord) ==
    /\ Enqueued < MaxQueue
    /\ AddStakingRecordToQueue(rootID, stakingRecord)
    /\ fifo' = [fifo EXCEPT ![rootID] = Append(@, stakingRecord)]
    /\ UNCHANGED consumer

ConsumerPeek(rootID) ==
    /\ consumer.out # "record"
    /\ GetNextStakingRecordFromQueue(rootID)
    /\ consumer' = [rootID |-> rootID, taken |-> queueOp'.got, out |-> queueOp'.out]
    /\ UNCHANGED fifo

ConsumerRemove ==
    /\ consumer.out = "record"
    /\ removeStakingRecordFromQueue(consumer.rootID, consumer.taken.ValidatorID,
                                    consumer.taken.Nonce)
    /\ fifo' = [fifo EXCEPT ![consumer.rootID] = IF @ = <<>> THEN @ ELSE Tail(@)]
    /\ consumer' = [consumer EXCEPT !.out = "removed"]

FifoInit == ListenerAtRest /\ KeeperAtRest

FifoNext ==
    \/ \E r \in RootIDs, rec \in StakingRecords : Enqueue(r, rec)
    \/ \E r \in RootIDs : ConsumerPeek(r)
    \/ ConsumerRemove

FifoSpec == FifoInit /\ [][FifoNext]_vars

\* C19: every peek of the consumer returns the oldest record enqueued on
\* that rootID and not yet taken, and none when every enqueued record has
\* been taken: records come out once each, in the order they went in.
StrictFifoConsumption ==
    [][\A r \in RootIDs :
          ConsumerPeek(r)
          => IF fifo[r] = <<>>
             THEN consumer'.out = "none"
             ELSE consumer'.out = "record" /\ consumer'.taken = Head(fifo[r])]_vars

(***************************************************************************)
(* Validator records: AddValidator, GetValidatorInfo, UpdateSigner and the *)
(* validator ID -> signer map (part_000, lines 86-127, 191-214, 277-307).  *)
(***************************************************************************)
\* most validator records registered by AddValidator calls
MaxValidators == 2

MarshallValidator(validator) ==
    <<validator.ID, validator.Signer, validator.PubKey, validator.Power>>

UnmarshallValidator(bz) ==
    IF Len(bz) # 4 THEN [err |-> TRUE, validator |-> NoValidator]
    ELSE [err |-> FALSE,
          validator |-> [ID |-> bz[1], Signer |-> bz[2], PubKey |-> bz[3], Power |-> bz[4]]]

\* SetValidatorIDToSignerAddr, lines 278-281
SetValidatorIDToSignerAddr(store, valID, signerAddr) ==
    Set(store, GetValidatorMapKey(Bytes(valID)), Bytes(signerAddr))

\* AddValidator, lines 87-107: the record under its signer's key, then the map
StoreAfterAddValidator(store, validator) ==
    SetValidatorIDToSignerAddr(
        Set(store, GetValidatorKey(Bytes(validator.Signer)), MarshallValidator(validator)),
        validator.ID, validator.Signer)

\* variant: no check that a record is stored under the address
GetValidatorInfoUnchecked(store, address) ==
    IF ~store[GetValidatorKey(address)].present
    THEN [err |-> FALSE, validator |-> NoValidator]
    ELSE UnmarshallValidator(store[GetValidatorKey(address)].bz)

\* GetValidatorInfo, lines 110-127
GetValidatorInfo(store, address) ==
    IF ~store[GetValidatorKey(address)].present
    THEN [err |-> TRUE, validator |-> NoValidator]
    ELSE UnmarshallValidator(store[GetValidatorKey(address)].bz)

\* GetSignerFromValidatorID, lines 284-293
GetSignerFromValidatorID(store, valID) ==
    IF ~store[GetValidatorMapKey(Bytes(valID))].present
    THEN [ok |-> FALSE, signer |-> ZeroAddress]
    ELSE [ok |-> TRUE, signer |-> BytesToAddress(store[GetValidatorMapKey(Bytes(valID))].bz)]

\* GetValidatorFromValID, lines 296-307
GetValidatorFromValID(store, valID) ==
    LET signer == GetSignerFromValidatorID(store, valID)
        got == GetValidatorInfo(store, Bytes(signer.signer))
    IN IF ~signer.ok THEN [ok |-> FALSE, validator |-> NoValidator]
       ELSE IF got.err THEN [ok |-> FALSE, validator |-> got.validator]
       ELSE [ok |-> TRUE, validator |-> got.validator]

\* variant: the old record keeps its power
KeepPower(validator) == validator

\* line 202: validator.Power = 0
ZeroPower(validator) == [validator EXCEPT !.Power = 0]

\* lines 207-209: the record that goes under the new signer
WithNewSigner(validator, newSigner, newPubkey, validatorPower) ==
    [validator EXCEPT !.Signer = newSigner, !.PubKey = newPubkey, !.Power = validatorPower]

\* UpdateSigner, lines 192-214, on the store
StoreAfterUpdateSigner(store, newSigner, newPubkey, prevSigner) ==
    LET got == GetValidatorInfo(store, Bytes(prevSigner))
        validatorPower == got.validator.Power
        retired == ZeroPower(got.validator)
    IN IF got.err THEN store
       ELSE StoreAfterAddValidator(
                StoreAfterAddValidator(store, retired),
                WithNewSigner(retired, newSigner, newPubkey, validatorPower))

StoredValidators ==
    {a \in Signers : validatorStore[GetValidatorKey(Bytes(a))].present}

AddValidator(validator) ==
    /\ Cardinality(StoredValidators) < MaxValidators
    /\ validatorStore' = StoreAfterAddValidator(validatorStore, validator)
    /\ validatorOp' = [NoValidatorOp EXCEPT !.op = "AddValidator"]
    /\ UNCHANGED outsideValidators

UpdateSigner(newSigner, newPubkey, prevSigner) ==
    /\ validatorStore' = StoreAfterUpdateSigner(validatorStore, newSigner, newPubkey, prevSigner)
    /\ validatorOp' = [op |-> "UpdateSigner", newSigner |-> newSigner, newPubkey |-> newPubkey,
                       prevSigner |-> prevSigner,
                       found |-> GetValidatorInfo(validatorStore, Bytes(prevSigner)).validator,
                       err |-> GetValidatorInfo(validatorStore, Bytes(prevSigner)).err]
    /\ UNCHANGED outsideValidators

\* the validators registered: a first public key, some power
NewValidators ==
    {[ID |-> id, Signer |-> a, PubKey |-> 1, Power |-> p] :
        id \in ValidatorIDs, a \in Signers, p \in Powers}

ValidatorInit == ListenerAtRest /\ KeeperAtRest

ValidatorNext ==
    \/ \E validator \in NewValidators : AddValidator(validator)
    \/ \E newSigner \in Signers, newPubkey \in PubKeys, prevSigner \in Signers :
          UpdateSigner(newSigner, newPubkey, prevSigner)

ValidatorSpec == ValidatorInit /\ [][ValidatorNext]_vars

\* what the records say after an UpdateSigner that found its validator
RotatedTo(store, found, newSigner, newPubkey) ==
    /\ GetValidatorInfo(store, Bytes(newSigner)).validator
          = [ID |-> found.ID, Signer |-> newSigner, PubKey |-> newPubkey, Power |-> found.Power]
    /\ GetSignerFromValidatorID(store, found.ID) = [ok |-> TRUE, signer |-> newSigner]

Retired(store, prevSigner) ==
    /\ ~GetValidatorInfo(store, Bytes(prevSigner)).err
    /\ GetValidatorInfo(store, Bytes(prevSigner)).validator.Power = 0

\* C14 as stated: after UpdateSigner on a validator stored under prevSigner
\* with power p, for every newSigner, the record under prevSigner has power
\* 0, the record under newSigner has power p, the same ID and the new public
\* key, and the ID resolves to newSigner.
SignerRotationForEverySigner ==
    (validatorOp.op = "UpdateSigner" /\ ~validatorOp.err)
    => /\ Retired(validatorStore, validatorOp.prevSigner)
       /\ RotatedTo(validatorStore, validatorOp.found, validatorOp.newSigner,
                    validatorOp.newPubkey)

\* C14: the same for every newSigner other than prevSigner; with newSigner =
\* prevSigner the one record under that signer keeps power p and takes the
\* new public key.
SignerRotation ==
    (validatorOp.op = "UpdateSigner" /\ ~validatorOp.err)
    => /\ validatorOp.newSigner # validatorOp.prevSigner
             => Retired(validatorStore, validatorOp.prevSigner)
       /\ RotatedTo(validatorStore, validatorOp.found, validatorOp.newSigner,
                    validatorOp.newPubkey)

\* a validator with power has been moved to another signer and another key
SignerRotated ==
    /\ validatorOp.op = "UpdateSigner"
    /\ ~validatorOp.err
    /\ validatorOp.found.Power > 0
    /\ validatorOp.newSigner # validatorOp.prevSigner
    /\ validatorOp.newPubkey # validatorOp.found.PubKey
    /\ Retired(validatorStore, validatorOp.prevSigner)
    /\ RotatedTo(validatorStore, validatorOp.found, validatorOp.newSigner,
                 validatorOp.newPubkey)

(***************************************************************************)
(* The validator set (types.ValidatorSet): weighted round-robin.  In one   *)
(* rotation step every accumulator grows by its validator's power, the     *)
(* validator with the highest accumulator (the first of them in the set's  *)
(* order) becomes proposer and its accumulator drops by the total power.   *)
(***************************************************************************)
EmptyValidatorSet == [Validators |-> <<>>, Proposer |-> 0]

RECURSIVE TotalVotingPower(_)
TotalVotingPower(validators) ==
    IF validators = <<>> THEN 0
    ELSE Head(validators).Power + TotalVotingPower(Tail(validators))

\* position of the highest accumulator, the first one among equals
Mostest(validators) ==
    CHOOSE i \in 1..Len(validators) :
        /\ \A j \in 1..Len(validators) : validators[j].Accum <= validators[i].Accum
        /\ \A j \in 1..(i - 1) : validators[j].Accum < validators[i].Accum

RotationStep(validatorSet) ==
    LET raised == [i \in 1..Len(validatorSet.Validators) |->
                      [validatorSet.Validators[i] EXCEPT !.Accum = @ + validatorSet.Validators[i].Power]]
        m == Mostest(raised)
    IN [Validators |-> [raised EXCEPT ![m].Accum = @ - TotalVotingPower(raised)],
        Proposer |-> raised[m].ID]

RECURSIVE ValSetIncrementAccum(_, _)
ValSetIncrementAccum(validatorSet, times) ==
    IF times = 0 \/ validatorSet.Validators = <<>> THEN validatorSet
    ELSE ValSetIncrementAccum(RotationStep(validatorSet), times - 1)

ValSetCopyIncrementAccum(validatorSet, times) == ValSetIncrementAccum(validatorSet, times)

ValSetGetProposer(validatorSet) ==
    IF validatorSet.Validators = <<>> THEN 0
    ELSE IF validatorSet.Proposer # 0 THEN validatorSet.Proposer
    ELSE validatorSet.Validators[Mostest(validatorSet.Validators)].ID

\* the set in the codec's binary form: the proposer, then each member's fields
RECURSIVE MarshalMembers(_)
MarshalMembers(validators) ==
    IF validators = <<>> THEN <<>>
    ELSE <<Head(validators).ID, Head(validators).Power, Head(validators).Accum>>
            \o MarshalMembers(Tail(validators))

MarshalValidatorSet(validatorSet) ==
    <<validatorSet.Proposer>> \o MarshalMembers(validatorSet.Validators)

RECURSIVE UnmarshalMembers(_)
UnmarshalMembers(bz) ==
    IF Len(bz) < 3 THEN <<>>
    ELSE <<[ID |-> bz[1], Power |-> bz[2], Accum |-> bz[3]]>>
            \o UnmarshalMembers(SubSeq(bz, 4, Len(bz)))

\* GetValidatorSet, lines 233-242: the error of the unmarshal is dropped and
\* the set is then the zero value
GetValidatorSet(stored) ==
    IF ~stored.present \/ Len(stored.bz) % 3 # 1 THEN EmptyValidatorSet
    ELSE [Validators |-> UnmarshalMembers(Tail(stored.bz)), Proposer |-> stored.bz[1]]

\* variant: the new set is not written
UpdateValidatorSetInStoreDropped(stored, newValidatorSet) == stored

\* UpdateValidatorSetInStore, lines 217-230
UpdateValidatorSetInStore(stored, newValidatorSet) ==
    [present |-> TRUE, bz |-> MarshalValidatorSet(newValidatorSet)]

\* variant: every call rotates twice as far
IncrementedTwice(validatorSet, times) == ValSetIncrementAccum(validatorSet, 2 * times)

\* line 250: validatorSet.IncrementAccum(times)
Incremented(validatorSet, times) == ValSetIncrementAccum(validatorSet, times)

\* variant: the preview looks two steps ahead
NextProposerTwoAhead(validatorSet) ==
    ValSetGetProposer(ValSetCopyIncrementAccum(validatorSet, 2))

\* lines 262-265: CopyIncrementAccum(1).GetProposer()
NextProposer(validatorSet) ==
    ValSetGetProposer(ValSetCopyIncrementAccum(validatorSet, 1))

\* line 274
CurrentProposer(validatorSet) == ValSetGetProposer(validatorSet)

\* the last proposers, as long as they came from IncrementAccum(1) calls
RunAfter(recent, times, proposer) ==
    IF times # 1 THEN <<>>
    ELSE IF Len(recent) < MaxRun THEN Append(recent, proposer)
    ELSE Append(Tail(recent), proposer)

\* the set is put in the store at genesis
InitGenesis(powers) ==
    /\ ~currentValidatorSet.present
    /\ currentValidatorSet' = [present |-> TRUE,
                               bz |-> MarshalValidatorSet(NewValidatorSet(powers))]
    /\ proposerOp' = [NoProposerOp EXCEPT !.op = "InitGenesis"]
    /\ UNCHANGED <<outsideProposer, workers>>

\* IncrementAccum, lines 245-254
IncrementAccum(times) ==
    /\ currentValidatorSet.present
    /\ currentValidatorSet' =
          UpdateValidatorSetInStore(currentValidatorSet,
              Incremented(GetValidatorSet(currentValidatorSet), times))
    /\ proposerOp' =
          [op |-> "IncrementAccum", times |-> times,
           proposer |-> CurrentProposer(GetValidatorSet(currentValidatorSet')),
           recent |-> RunAfter(proposerOp.recent, times,
                               CurrentProposer(GetValidatorSet(currentValidatorSet')))]
    /\ UNCHANGED <<outsideProposer, workers>>

\* GetNextProposer, lines 257-266
GetNextProposer ==
    /\ currentValidatorSet.present
    /\ proposerOp' = [proposerOp EXCEPT !.op = "GetNextProposer", !.times = 0,
                         !.proposer = NextProposer(GetValidatorSet(currentValidatorSet))]
    /\ UNCHANGED <<currentValidatorSet, outsideProposer, workers>>

\* GetCurrentProposer, lines 269-275
GetCurrentProposer ==
    /\ currentValidatorSet.present
    /\ proposerOp' = [proposerOp EXCEPT !.op = "GetCurrentProposer", !.times = 0,
                         !.proposer = CurrentProposer(GetValidatorSet(currentValidatorSet))]
    /\ UNCHANGED <<currentValidatorSet, outsideProposer, workers>>

ProposerInit == ListenerAtRest /\ KeeperAtRest

ProposerNext ==
    \/ \E powers \in GenesisPowers : InitGenesis(powers)
    \/ \E times \in 1..MaxTimes : IncrementAccum(times)
    \/ GetNextProposer
    \/ GetCurrentProposer

ProposerSpec == ProposerInit /\ [][ProposerNext]_vars

(***************************************************************************)
(* Properties of the proposer rotation.                                    *)
(***************************************************************************)
StoredSet == GetValidatorSet(currentValidatorSet)

\* C15: GetNextProposer and GetCurrentProposer leave the stored validator
\* set as it was; a stored set changes only in an IncrementAccum call, which
\* stores the set rotated by the steps asked for.
OnlyIncrementAccumPersists ==
    [][/\ (GetNextProposer \/ GetCurrentProposer)
             => currentValidatorSet' = currentValidatorSet
       /\ (currentValidatorSet.present /\ currentValidatorSet' # currentValidatorSet)
             => \E times \in 1..MaxTimes : IncrementAccum(times)
       /\ \A times \in 1..MaxTimes :
             IncrementAccum(times)
             => GetValidatorSet(currentValidatorSet')
                   = ValSetIncrementAccum(StoredSet, times)]_vars

\* a preview has been asked for after rotations, and the stored proposer is
\* still the one the last rotation chose
PreviewedAfterRotation ==
    /\ proposerOp.op = "GetNextProposer"
    /\ Len(proposerOp.recent) >= 2
    /\ StoredSet.Proposer = proposerOp.recent[Len(proposerOp.recent)]
    /\ proposerOp.proposer # StoredSet.Proposer

RECURSIVE Count(_, _)
Count(run, id) ==
    IF run = <<>> THEN 0
    ELSE (IF Head(run) = id THEN 1 ELSE 0) + Count(Tail(run), id)

PowerOf(validatorSet, id) ==
    LET i == CHOOSE j \in 1..Len(validatorSet.Validators) : validatorSet.Validators[j].ID = id
    IN validatorSet.Validators[i].Power

HasPowers10And5And5(validatorSet) ==
    /\ Len(validatorSet.Validators) = 3
    /\ Cardinality({i \in 1..3 : validatorSet.Validators[i].Power = 10}) = 1
    /\ Cardinality({i \in 1..3 : validatorSet.Validators[i].Power = 5}) = 2

\* C17: in a set of powers {10,5,5} rotated by IncrementAccum(1) calls, every
\* run of 4k consecutive proposers has the power-10 validator 2k times and
\* each power-5 validator k times.
ProposerInProportionToPower ==
    HasPowers10And5And5(StoredSet)
    => \A k \in 1..MaxRun, from \in 1..MaxRun :
          from + 4 * k - 1 <= Len(proposerOp.recent)
          => LET run == SubSeq(proposerOp.recent, from, from + 4 * k - 1)
             IN \A id \in 1..3 :
                   Count(run, id) = IF PowerOf(StoredSet, id) = 10 THEN 2 * k ELSE k

\* eight IncrementAccum(1) calls in a row on a set of powers {10,5,5}
EightProposersInARow ==
    /\ HasPowers10And5And5(StoredSet)
    /\ Len(proposerOp.recent) = 8
    /\ proposerOp.op = "IncrementAccum"

(***************************************************************************)
(* Concurrent calls on the validator set store.  IncrementAccum reads the  *)
(* stored set (line 247) and writes the rotated set back (line 253) with   *)
(* nothing held in between: each worker's call is a read step and a write  *)
(* step.  UpdateSigner calls run among them.                               *)
(***************************************************************************)
GenesisValidator == [ID |-> 1, Signer |-> 1, PubKey |-> 1, Power |-> 10]
GenesisSet == NewValidatorSet(<<10, 5, 5>>)

\* genesis: the validator set and a validator's record are stored
StoreGenesis ==
    /\ ~currentValidatorSet.present
    /\ currentValidatorSet' = [present |-> TRUE, bz |-> MarshalValidatorSet(GenesisSet)]
    /\ validatorStore' = StoreAfterAddValidator(validatorStore, GenesisValidator)
    /\ UNCHANGED <<listenerVars, queueVars, fifoVars, validatorOp, proposerOp, workers>>

\* line 247: validatorSet := k.GetValidatorSet(ctx)
IncrementAccumRead(w) ==
    /\ currentValidatorSet.present
    /\ workers[w].pc = "idle"
    /\ workers[w].done < MaxCalls
    /\ workers' = [workers EXCEPT ![w].pc = "read", ![w].read = currentValidatorSet.bz]
    /\ UNCHANGED <<outsideProposer, currentValidatorSet, proposerOp>>

\* lines 250-253: rotate the set that was read and store it
IncrementAccumWrite(w) ==
    /\ workers[w].pc = "read"
    /\ currentValidatorSet' =
          UpdateValidatorSetInStore(currentValidatorSet,
              Incremented(GetValidatorSet([present |-> TRUE, bz |-> workers[w].read]), 1))
    /\ workers' = [workers EXCEPT ![w].pc = "idle", ![w].read = <<>>, ![w].done = @ + 1]
    /\ UNCHANGED <<outsideProposer, proposerOp>>

ConcurrentInit == ListenerAtRest /\ KeeperAtRest

ConcurrentNext ==
    \/ StoreGenesis
    \/ \E w \in Workers : IncrementAccumRead(w)
    \/ \E w \in Workers : IncrementAccumWrite(w)
    \/ \E newSigner \in Signers, prevSigner \in Signers :
          currentValidatorSet.present /\ UpdateSigner(newSigner, 2, prevSigner)

ConcurrentSpec == ConcurrentInit /\ [][ConcurrentNext]_vars

CallsDone == SumOver([w \in Workers |-> workers[w].done], Workers)

\* C18: once the calls in progress have returned, the stored validator set
\* is the one a serial run of the IncrementAccum(1) calls made leaves: the
\* genesis set rotated once per call, two calls leaving it as after
\* IncrementAccum(2), whatever UpdateSigner calls ran among them.
MutationsAreSerialized ==
    (/\ currentValidatorSet.present
     /\ \A w \in Workers : workers[w].pc = "idle")
    => StoredSet = ValSetIncrementAccum(GenesisSet, CallsDone)

(***************************************************************************)
(* Properties of the validator records and the ID -> signer map.           *)
(***************************************************************************)
\* C23: for every ValidatorID in the ID -> signer map, a validator record is
\* stored under the mapped signer and its ID is that ValidatorID.
IndexConsistency ==
    \A id \in ValidatorIDs :
        GetSignerFromValidatorID(validatorStore, id).ok
        => /\ GetValidatorFromValID(validatorStore, id).ok
           /\ GetValidatorFromValID(validatorStore, id).validator.ID = id

\* C24: an UpdateSigner whose prevSigner has no stored validator returns an
\* error and leaves the validator records, the ID -> signer map and the
\* stored validator set as they were.
UnknownSignerChangesNothing ==
    [][\A newSigner \in Signers, newPubkey \in PubKeys, prevSigner \in Signers :
          (/\ UpdateSigner(newSigner, newPubkey, prevSigner)
           /\ ~validatorStore[GetValidatorKey(Bytes(prevSigner))].present)
          => /\ validatorOp'.err
             /\ validatorStore' = validatorStore
             /\ currentValidatorSet' = currentValidatorSet]_vars

\* an UpdateSigner has failed on a signer without a record, beside stored
\* records and a stored validator set
UnknownSignerRejected ==
    /\ validatorOp.op = "UpdateSigner"
    /\ validatorOp.err
    /\ ~validatorStore[GetValidatorKey(Bytes(validatorOp.prevSigner))].present
    /\ StoredValidators # {}
    /\ currentValidatorSet.present

(***************************************************************************)
(* Classification of a log over the ordered list of ABIs.                  *)
(***************************************************************************)
\* C21: for each scanned log at most one task is submitted, also when more
\* than one ABI of the list knows the log's first topic.
AtMostOneTaskPerLog ==
    \A i, j \in 1..Len(sent) : i # j => sent[i].sig.log # sent[j].sig.log

====
